---- MODULE Spec2Model ----
(***************************************************************************)
(* Model of src/src/common/collections.rs: the cluster control-plane       *)
(* entry point do_update_collection_cluster (validation of a cluster       *)
(* operation, translation into one consensus mutation, submission) and     *)
(* the shard placement generator generate_even_placement.                  *)
(*                                                                         *)
(* The handler holds no state of its own.  It reads the consensus          *)
(* membership and the collection's state and hands a mutation to the       *)
(* dispatcher; the mutation changes the replicated state only when the     *)
(* consensus layer commits it, which is a separate step (Commit).          *)
(***************************************************************************)
EXTENDS Integers, Sequences, FiniteSets, TLC

(* ------------------------------ bounds -------------------------------- *)

\* update-cluster calls in one behaviour
MaxCalls == 2
\* mutations submitted to consensus and not yet committed
MaxPending == 2
\* generate_even_placement is applied to pools over the peers 1..MaxPool, of
\* length 0..MaxPool, for 0..MaxShardNumber shards and factors 1..MaxReplication
MaxPool == 3
MaxShardNumber == 3
MaxReplication == 4
\* create-snapshot calls in one behaviour
MaxSnapshotCalls == 2

(* ------------------------------ values -------------------------------- *)

\* Option<T>: None is the empty sequence, Some(x) the one-element sequence
None == <<>>
Some(x) == <<x>>
unwrap_or(opt, default) == IF opt = None THEN default ELSE opt[1]

OptionOf(S) == {None} \cup {Some(x) : x \in S}

SeqsUpTo(S, n) == UNION {[1..k -> S] : k \in 0..n}

collection_name == "collection"

ShardKeys == {"a", "b"}

\* Option<ShardTransferMethod>
TransferMethods == {None, Some("snapshot")}

\* the peers of the cluster, and the peer ids an operation can name (3 is no member)
MemberPeerIds == {1, 2}
OpPeerIds == MemberPeerIds \cup {3}

\* the shards of the collection, and the shard ids an operation can name
CollectionShardIds == {0}
OpShardIds == CollectionShardIds \cup {1}

\* the explicit placement lists an operation can carry
OpPlacements == SeqsUpTo(OpPeerIds, 2)

\* the shards_number and the replication_factor an operation can ask for
OpShardsNumbers == {2}
OpReplicationFactors == {1}

(* ------------------------------ state --------------------------------- *)

VARIABLES
    consensus_state,      \* dispatcher.consensus_state().is_some()
    collection_lookup,    \* what dispatcher.get_collection(name) answers
    peer_address_by_id,   \* consensus membership: the set of known peer ids
    shards,               \* shard ids of the collection
    config,               \* state.config.params
    shards_key_mapping,   \* state.shards_key_mapping: shard key -> placement
    transfers,            \* active shard transfers of the collection
    replicas,             \* <<shard_id, peer_id>> replica holders
    aborted,              \* transfer keys a committed abort removed, not started since
    pending,              \* mutations submitted to consensus, not yet committed
    last,                 \* the latest update-cluster call: operation, result, submissions
    calls,                \* number of update-cluster calls so far
    gen_input,            \* arguments of a generate_even_placement call
    gen_output,           \* what that call returned
    exists_reply,         \* what the latest collection-exists call returned
    snapshots             \* the create-snapshot calls so far, each with its spawned task

cluster_vars == <<consensus_state, collection_lookup, peer_address_by_id, shards, config>>
replicated_vars == <<shards_key_mapping, transfers, replicas, aborted>>
call_vars == <<pending, last, calls>>
gen_vars == <<gen_input, gen_output>>
service_vars == <<exists_reply, snapshots>>
vars == <<cluster_vars, replicated_vars, call_vars, gen_vars, service_vars>>

(* ------------------------ placement generator ------------------------- *)

Min(a, b) == IF a <= b THEN a ELSE b

\* the permutations of the positions 1..n: what pool.shuffle(&mut rng) can draw
Shuffles(n) == {f \in [1..n -> 1..n] : \A i, j \in 1..n : f[i] = f[j] => i = j}

\* pool.shuffle(&mut rng), rng being the permutation drawn
shuffle(pool, rng) == [i \in 1..Len(pool) |-> pool[rng[i]]]

\* (mutant) past the end the walk starts over at the second peer
cycle_next_SkipsFirst(pool, pos) ==
    IF pos >= Len(pool) THEN Min(2, Len(pool)) ELSE pos + 1

\* pool.iter().cycle(): the position after pos, wrapping past the end
cycle_next(pool, pos) == IF pos >= Len(pool) THEN 1 ELSE pos + 1

\* the inner loop: push max_replication_factor items of loop_iter
RECURSIVE replica_loop(_, _, _, _)
replica_loop(pool, pos, remaining, shard_placement) ==
    IF remaining = 0
    THEN [shard_placement |-> shard_placement, pos |-> pos]
    ELSE replica_loop(pool, cycle_next(pool, pos), remaining - 1,
                      Append(shard_placement, pool[pos]))

\* (mutant) every shard starts its walk at the head of the pool again
RECURSIVE shard_loop_RestartsWalk(_, _, _, _, _)
shard_loop_RestartsWalk(pool, pos, remaining, max_replication_factor, exact_placement) ==
    IF remaining = 0
    THEN exact_placement
    ELSE LET one == replica_loop(pool, 1, max_replication_factor, <<>>)
         IN  shard_loop_RestartsWalk(pool, one.pos, remaining - 1,
                                     max_replication_factor,
                                     Append(exact_placement, one.shard_placement))

\* the outer loop: one shard_placement per shard, loop_iter carried along
RECURSIVE shard_loop(_, _, _, _, _)
shard_loop(pool, pos, remaining, max_replication_factor, exact_placement) ==
    IF remaining = 0
    THEN exact_placement
    ELSE LET one == replica_loop(pool, pos, max_replication_factor, <<>>)
         IN  shard_loop(pool, one.pos, remaining - 1, max_replication_factor,
                        Append(exact_placement, one.shard_placement))

\* (mutant) the replication factor is not clamped to the pool size
generate_even_placement_Unclamped(pool, shard_number, replication_factor, rng) ==
    shard_loop(shuffle(pool, rng), 1, shard_number,
               IF pool = <<>> THEN 0 ELSE replication_factor, <<>>)

generate_even_placement(pool, shard_number, replication_factor, rng) ==
    LET shuffled == shuffle(pool, rng)
        max_replication_factor == Min(replication_factor, Len(shuffled))
    IN  shard_loop(shuffled, 1, shard_number, max_replication_factor, <<>>)

(* --------------------------- results ---------------------------------- *)

\* a formatted error message: its fixed text and the identifiers formatted into it
Description(text, peer_ids, shard_ids, shard_keys, collection_names) ==
    [text |-> text, peer_ids |-> peer_ids, shard_ids |-> shard_ids,
     shard_keys |-> shard_keys, collection_names |-> collection_names]

NoDescription == Description("", <<>>, <<>>, <<>>, <<>>)

\* Result<bool, StorageError>
Ok == [kind |-> "Ok", description |-> NoDescription]
Err(kind, description) == [kind |-> kind, description |-> description]

\* what one call did: the result it returned and the mutations it submitted
Rejected(result) == [result |-> result, submitted |-> <<>>]

\* dispatcher.submit_collection_meta_op(mutation, wait_timeout).await: the mutation
\* is handed to consensus, and the call returns what the wait for it answered
submit_collection_meta_op(mutation, wait_result) ==
    [result |-> wait_result, submitted |-> <<mutation>>]

\* the answers of the wait: committed in time, or the wait timed out
WaitResults ==
    {Ok, Err("Timeout", Description("Waiting for consensus operation commit failed",
                                    <<>>, <<>>, <<>>, <<>>))}

(* ----------------------- reads of the snapshot ------------------------ *)

get_all_peer_ids ==
    LET RECURSIVE keys(_)
        keys(S) == IF S = {} THEN <<>>
                   ELSE LET m == CHOOSE x \in S : \A y \in S : x <= y
                        IN  <<m>> \o keys(S \ {m})
    IN  keys(peer_address_by_id)

\* (mutant) every peer id is taken for a member
validate_peer_exists_AlwaysOk(peer_id) == Ok

validate_peer_exists(peer_id) ==
    IF peer_id \notin peer_address_by_id
    THEN Err("BadRequest", Description("Peer {peer_id} does not exist",
                                       <<peer_id>>, <<>>, <<>>, <<>>))
    ELSE Ok

contains_shard(shard_id) == shard_id \in shards

ShardTransferKey(shard_id, to, from) == [shard_id |-> shard_id, to |-> to, from |-> from]

key_of(transfer) == ShardTransferKey(transfer.shard_id, transfer.to, transfer.from)

check_transfer_exists(transfer_key) == \E t \in transfers : key_of(t) = transfer_key

\* state.config.params.sharding_method.unwrap_or_default(): the default is Auto
sharding_method == unwrap_or(config.sharding_method, "Auto")

(* --------------------------- operations ------------------------------- *)

\* ClusterOperations: the closed set of update-cluster intents
MoveShardOps ==
    [kind : {"MoveShard"}, shard_id : OpShardIds, to_peer_id : OpPeerIds,
     from_peer_id : OpPeerIds, method : TransferMethods]

ReplicateShardOps ==
    [kind : {"ReplicateShard"}, shard_id : OpShardIds, to_peer_id : OpPeerIds,
     from_peer_id : OpPeerIds, method : TransferMethods]

AbortTransferOps ==
    [kind : {"AbortTransfer"}, shard_id : OpShardIds, to_peer_id : OpPeerIds,
     from_peer_id : OpPeerIds]

DropReplicaOps ==
    [kind : {"DropReplica"}, shard_id : OpShardIds, peer_id : OpPeerIds]

CreateShardingKeyOps ==
    [kind : {"CreateShardingKey"}, shard_key : ShardKeys,
     shards_number : OptionOf(OpShardsNumbers),
     replication_factor : OptionOf(OpReplicationFactors),
     placement : OptionOf(OpPlacements)]

DropShardingKeyOps ==
    [kind : {"DropShardingKey"}, shard_key : ShardKeys]

RestartTransferOps ==
    [kind : {"RestartTransfer"}, shard_id : OpShardIds, from_peer_id : OpPeerIds,
     to_peer_id : OpPeerIds, method : TransferMethods]

ClusterOperations ==
    MoveShardOps \cup ReplicateShardOps \cup AbortTransferOps \cup DropReplicaOps
        \cup CreateShardingKeyOps \cup DropShardingKeyOps \cup RestartTransferOps

(* --------------------------- mutations -------------------------------- *)

\* ShardTransfer
ShardTransfer(shard_id, to, from, sync, method) ==
    [shard_id |-> shard_id, to |-> to, from |-> from, sync |-> sync, method |-> method]

\* CollectionMetaOperations::TransferShard(collection_name, Start(transfer))
StartTransfer(name, transfer) ==
    [type |-> "TransferShard", collection_name |-> name,
     operation |-> [type |-> "Start", transfer |-> transfer]]

\* CollectionMetaOperations::TransferShard(collection_name, Abort { transfer, reason })
AbortTransfer(name, transfer_key, reason) ==
    [type |-> "TransferShard", collection_name |-> name,
     operation |-> [type |-> "Abort", transfer |-> transfer_key, reason |-> reason]]

\* CollectionMetaOperations::TransferShard(collection_name, Restart(ShardTransferRestart))
RestartTransfer(name, shard_id, to, from, method) ==
    [type |-> "TransferShard", collection_name |-> name,
     operation |-> [type |-> "Restart",
                    transfer |-> [shard_id |-> shard_id, to |-> to, from |-> from,
                                  method |-> method]]]

\* CollectionMetaOperations::UpdateCollection(update_operation), the operation built
\* by new_empty(collection_name) and set_shard_replica_changes(changes)
UpdateCollection(name, shard_replica_changes) ==
    [type |-> "UpdateCollection", collection_name |-> name,
     shard_replica_changes |-> shard_replica_changes]

\* replica_set::Change::Remove(shard_id, peer_id)
Remove(shard_id, peer_id) == [type |-> "Remove", shard_id |-> shard_id, peer_id |-> peer_id]

\* CollectionMetaOperations::CreateShardKey(CreateShardKey { .. })
CreateShardKey(name, shard_key, placement) ==
    [type |-> "CreateShardKey", collection_name |-> name, shard_key |-> shard_key,
     placement |-> placement]

\* CollectionMetaOperations::DropShardKey(DropShardKey { .. })
DropShardKey(name, shard_key) ==
    [type |-> "DropShardKey", collection_name |-> name, shard_key |-> shard_key]

(* ------------------- do_update_collection_cluster --------------------- *)

ShardDoesNotExist(shard_id) ==
    Err("BadRequest", Description("Shard {shard_id} of {collection_name} does not exist",
                                  <<>>, <<shard_id>>, <<>>, <<collection_name>>))

\* (mutant) the message names the collection and the shard, not the two peers
TransferDoesNotExist_NoPeers(transfer_key) ==
    Err("NotFound",
        Description("Shard transfer for collection {collection_name}:{shard_id} does not exist",
                    <<>>, <<transfer_key.shard_id>>, <<>>, <<collection_name>>))

TransferDoesNotExist(transfer_key) ==
    Err("NotFound",
        Description("Shard transfer {from} -> {to} for collection {collection_name}:{shard_id} does not exist",
                    <<transfer_key.from, transfer_key.to>>, <<transfer_key.shard_id>>,
                    <<>>, <<collection_name>>))

\* validate_peer_exists(a)?; validate_peer_exists(b)?; ..: the first failure, or Ok
RECURSIVE validate_peers(_)
validate_peers(peer_ids) ==
    IF peer_ids = <<>> THEN Ok
    ELSE IF validate_peer_exists(Head(peer_ids)).kind # "Ok"
         THEN validate_peer_exists(Head(peer_ids))
         ELSE validate_peers(Tail(peer_ids))

\* (mutant) the mutation is submitted before the checks are looked at
Arm_SubmitFirst(validation, mutation, wait_result) ==
    [result |-> IF validation.kind # "Ok" THEN validation ELSE wait_result,
     submitted |-> <<mutation>>]

\* an arm of the match: return the first failed check, else submit the mutation
Arm(validation, mutation, wait_result) ==
    IF validation.kind # "Ok" THEN Rejected(validation)
    ELSE submit_collection_meta_op(mutation, wait_result)

\* ---- ClusterOperations::MoveShard

\* (mutant) a move whose transfer key is already active is rejected here
MoveShardValidation_ChecksTransfer(move_shard) ==
    IF ~contains_shard(move_shard.shard_id)
    THEN ShardDoesNotExist(move_shard.shard_id)
    ELSE IF check_transfer_exists(ShardTransferKey(move_shard.shard_id,
                                                   move_shard.to_peer_id,
                                                   move_shard.from_peer_id))
    THEN Err("BadRequest", Description("Shard transfer already exists",
                                       <<move_shard.from_peer_id, move_shard.to_peer_id>>,
                                       <<move_shard.shard_id>>, <<>>, <<>>))
    ELSE validate_peers(<<move_shard.to_peer_id, move_shard.from_peer_id>>)

MoveShardValidation(move_shard) ==
    IF ~contains_shard(move_shard.shard_id)
    THEN ShardDoesNotExist(move_shard.shard_id)
    ELSE validate_peers(<<move_shard.to_peer_id, move_shard.from_peer_id>>)

\* (mutant) the source and the target of the transfer are swapped
MoveShardMutation_Swapped(move_shard) ==
    StartTransfer(collection_name,
                  ShardTransfer(move_shard.shard_id, move_shard.from_peer_id,
                                move_shard.to_peer_id, FALSE, move_shard.method))

MoveShardMutation(move_shard) ==
    StartTransfer(collection_name,
                  ShardTransfer(move_shard.shard_id, move_shard.to_peer_id,
                                move_shard.from_peer_id, FALSE, move_shard.method))

MoveShardArm(move_shard, wait_result) ==
    Arm(MoveShardValidation(move_shard), MoveShardMutation(move_shard), wait_result)

\* ---- ClusterOperations::ReplicateShard

ReplicateShardValidation(replicate_shard) ==
    IF ~contains_shard(replicate_shard.shard_id)
    THEN ShardDoesNotExist(replicate_shard.shard_id)
    ELSE validate_peers(<<replicate_shard.to_peer_id, replicate_shard.from_peer_id>>)

\* (mutant) the replication is started as a move
ReplicateShardMutation_NotSync(replicate_shard) ==
    StartTransfer(collection_name,
                  ShardTransfer(replicate_shard.shard_id, replicate_shard.to_peer_id,
                                replicate_shard.from_peer_id, FALSE,
                                replicate_shard.method))

ReplicateShardMutation(replicate_shard) ==
    StartTransfer(collection_name,
                  ShardTransfer(replicate_shard.shard_id, replicate_shard.to_peer_id,
                                replicate_shard.from_peer_id, TRUE,
                                replicate_shard.method))

ReplicateShardArm(replicate_shard, wait_result) ==
    Arm(ReplicateShardValidation(replicate_shard),
        ReplicateShardMutation(replicate_shard), wait_result)

\* ---- ClusterOperations::AbortTransfer

AbortTransferKey(abort_transfer) ==
    ShardTransferKey(abort_transfer.shard_id, abort_transfer.to_peer_id,
                     abort_transfer.from_peer_id)

\* (mutant) the transfer is not looked up
AbortTransferValidation_NoLookup(abort_transfer) == Ok

AbortTransferValidation(abort_transfer) ==
    IF ~check_transfer_exists(AbortTransferKey(abort_transfer))
    THEN TransferDoesNotExist(AbortTransferKey(abort_transfer))
    ELSE Ok

AbortTransferMutation(abort_transfer) ==
    AbortTransfer(collection_name, AbortTransferKey(abort_transfer), "user request")

AbortTransferArm(abort_transfer, wait_result) ==
    Arm(AbortTransferValidation(abort_transfer),
        AbortTransferMutation(abort_transfer), wait_result)

\* ---- ClusterOperations::DropReplica

\* (mutant) the shard is not looked up
DropReplicaValidation_NoShardCheck(drop_replica) ==
    validate_peer_exists(drop_replica.peer_id)

DropReplicaValidation(drop_replica) ==
    IF ~contains_shard(drop_replica.shard_id)
    THEN ShardDoesNotExist(drop_replica.shard_id)
    ELSE validate_peer_exists(drop_replica.peer_id)

DropReplicaMutation(drop_replica) ==
    UpdateCollection(collection_name,
                     <<Remove(drop_replica.shard_id, drop_replica.peer_id)>>)

DropReplicaArm(drop_replica, wait_result) ==
    Arm(DropReplicaValidation(drop_replica), DropReplicaMutation(drop_replica),
        wait_result)

\* ---- ClusterOperations::CreateShardingKey

AutoShardingMethod ==
    Err("BadRequest", Description("Shard Key cannot be created with Auto sharding method",
                                  <<>>, <<>>, <<>>, <<>>))

ShardKeyAlreadyExists(shard_key) ==
    Err("BadRequest",
        Description("Sharding key {shard_key} already exists for collection {collection_name}",
                    <<>>, <<>>, <<shard_key>>, <<collection_name>>))

PlacementCannotBeEmpty(shard_key) ==
    Err("BadRequest",
        Description("Sharding key {shard_key} placement cannot be empty. If you want to use random placement, do not specify placement",
                    <<>>, <<>>, <<shard_key>>, <<>>))

\* (mutant) a create of the same key that is submitted and not yet committed counts
CreateShardingKeyValidation_SeesPending(create_sharding_key) ==
    IF sharding_method = "Auto"
    THEN AutoShardingMethod
    ELSE IF \/ create_sharding_key.shard_key \in DOMAIN shards_key_mapping
            \/ \E i \in DOMAIN pending :
                  /\ pending[i].type = "CreateShardKey"
                  /\ pending[i].shard_key = create_sharding_key.shard_key
    THEN ShardKeyAlreadyExists(create_sharding_key.shard_key)
    ELSE IF create_sharding_key.placement = None
    THEN Ok
    ELSE IF create_sharding_key.placement[1] = <<>>
    THEN PlacementCannotBeEmpty(create_sharding_key.shard_key)
    ELSE validate_peers(create_sharding_key.placement[1])

\* (mutant) the shard key is not looked up in the mapping
CreateShardingKeyValidation_NoKeyCheck(create_sharding_key) ==
    IF sharding_method = "Auto"
    THEN AutoShardingMethod
    ELSE IF create_sharding_key.placement = None
    THEN Ok
    ELSE IF create_sharding_key.placement[1] = <<>>
    THEN PlacementCannotBeEmpty(create_sharding_key.shard_key)
    ELSE validate_peers(create_sharding_key.placement[1])

\* (mutant) the sharding method is not looked at
CreateShardingKeyValidation_AnyMethod(create_sharding_key) ==
    IF create_sharding_key.shard_key \in DOMAIN shards_key_mapping
    THEN ShardKeyAlreadyExists(create_sharding_key.shard_key)
    ELSE IF create_sharding_key.placement = None
    THEN Ok
    ELSE IF create_sharding_key.placement[1] = <<>>
    THEN PlacementCannotBeEmpty(create_sharding_key.shard_key)
    ELSE validate_peers(create_sharding_key.placement[1])

\* (mutant) an empty placement list is taken like any other list
CreateShardingKeyValidation_EmptyAllowed(create_sharding_key) ==
    IF sharding_method = "Auto"
    THEN AutoShardingMethod
    ELSE IF create_sharding_key.shard_key \in DOMAIN shards_key_mapping
    THEN ShardKeyAlreadyExists(create_sharding_key.shard_key)
    ELSE IF create_sharding_key.placement = None
    THEN Ok
    ELSE validate_peers(create_sharding_key.placement[1])

CreateShardingKeyValidation(create_sharding_key) ==
    IF sharding_method = "Auto"
    THEN AutoShardingMethod
    ELSE IF create_sharding_key.shard_key \in DOMAIN shards_key_mapping
    THEN ShardKeyAlreadyExists(create_sharding_key.shard_key)
    ELSE IF create_sharding_key.placement = None
    THEN Ok
    ELSE IF create_sharding_key.placement[1] = <<>>
    THEN PlacementCannotBeEmpty(create_sharding_key.shard_key)
    ELSE validate_peers(create_sharding_key.placement[1])

\* (mutant) the explicit placement list is not used as the pool
peers_pool_AllPeers(create_sharding_key) == get_all_peer_ids

\* the pool the placement is generated from: the explicit list, else every known peer
peers_pool(create_sharding_key) ==
    IF create_sharding_key.placement # None
    THEN create_sharding_key.placement[1]
    ELSE get_all_peer_ids

CreateShardingKeyMutation(create_sharding_key, rng) ==
    LET shard_number == unwrap_or(create_sharding_key.shards_number, config.shard_number)
        replication_factor ==
            unwrap_or(create_sharding_key.replication_factor, config.replication_factor)
    IN  CreateShardKey(collection_name, create_sharding_key.shard_key,
                       generate_even_placement(peers_pool(create_sharding_key),
                                               shard_number, replication_factor, rng))

CreateShardingKeyArm(create_sharding_key, rng, wait_result) ==
    Arm(CreateShardingKeyValidation(create_sharding_key),
        CreateShardingKeyMutation(create_sharding_key, rng), wait_result)

\* ---- ClusterOperations::DropShardingKey

ShardKeyDoesNotExist(shard_key) ==
    Err("BadRequest",
        Description("Sharding key {shard_key} does not exists for collection {collection_name}",
                    <<>>, <<>>, <<shard_key>>, <<collection_name>>))

\* (mutant) the shard key is not looked up in the mapping
DropShardingKeyValidation_NoKeyCheck(drop_sharding_key) ==
    IF sharding_method = "Auto" THEN AutoShardingMethod ELSE Ok

DropShardingKeyValidation(drop_sharding_key) ==
    IF sharding_method = "Auto"
    THEN AutoShardingMethod
    ELSE IF drop_sharding_key.shard_key \notin DOMAIN shards_key_mapping
    THEN ShardKeyDoesNotExist(drop_sharding_key.shard_key)
    ELSE Ok

DropShardingKeyMutation(drop_sharding_key) ==
    DropShardKey(collection_name, drop_sharding_key.shard_key)

DropShardingKeyArm(drop_sharding_key, wait_result) ==
    Arm(DropShardingKeyValidation(drop_sharding_key),
        DropShardingKeyMutation(drop_sharding_key), wait_result)

\* ---- ClusterOperations::RestartTransfer

RestartTransferKey(restart_transfer) ==
    ShardTransferKey(restart_transfer.shard_id, restart_transfer.to_peer_id,
                     restart_transfer.from_peer_id)

\* (mutant) the transfer is not looked up
RestartTransferValidation_NoLookup(restart_transfer) == Ok

RestartTransferValidation(restart_transfer) ==
    IF ~check_transfer_exists(RestartTransferKey(restart_transfer))
    THEN TransferDoesNotExist(RestartTransferKey(restart_transfer))
    ELSE Ok

RestartTransferMutation(restart_transfer) ==
    RestartTransfer(collection_name, restart_transfer.shard_id,
                    restart_transfer.to_peer_id, restart_transfer.from_peer_id,
                    restart_transfer.method)

RestartTransferArm(restart_transfer, wait_result) ==
    Arm(RestartTransferValidation(restart_transfer),
        RestartTransferMutation(restart_transfer), wait_result)

\* match operation { .. }
match_operation(operation, rng, wait_result) ==
    CASE operation.kind = "MoveShard" -> MoveShardArm(operation, wait_result)
      [] operation.kind = "ReplicateShard" -> ReplicateShardArm(operation, wait_result)
      [] operation.kind = "AbortTransfer" -> AbortTransferArm(operation, wait_result)
      [] operation.kind = "DropReplica" -> DropReplicaArm(operation, wait_result)
      [] operation.kind = "CreateShardingKey" ->
             CreateShardingKeyArm(operation, rng, wait_result)
      [] operation.kind = "DropShardingKey" -> DropShardingKeyArm(operation, wait_result)
      [] operation.kind = "RestartTransfer" -> RestartTransferArm(operation, wait_result)

\* (mutant) the collection is looked up before the consensus state is asked for
do_update_collection_cluster_LookupFirst(operation, rng, wait_result) ==
    IF collection_lookup.kind # "Ok"
    THEN Rejected(collection_lookup)
    ELSE IF ~consensus_state
    THEN Rejected(Err("BadRequest",
                      Description("Distributed mode disabled", <<>>, <<>>, <<>>, <<>>)))
    ELSE match_operation(operation, rng, wait_result)

do_update_collection_cluster(operation, rng, wait_result) ==
    IF ~consensus_state
    THEN Rejected(Err("BadRequest",
                      Description("Distributed mode disabled", <<>>, <<>>, <<>>, <<>>)))
    ELSE IF collection_lookup.kind # "Ok"
    THEN Rejected(collection_lookup)
    ELSE match_operation(operation, rng, wait_result)

(* ------------------------ do_collection_exists ------------------------ *)

\* Ok(CollectionExists { exists })
CollectionExists(exists) == [kind |-> "Ok", exists |-> exists]

\* (mutant) a lookup that fails with NotFound is passed on like any other failure
do_collection_exists_NotFoundIsError(lookup) ==
    IF lookup.kind = "Ok" THEN CollectionExists(TRUE) ELSE lookup

\* lookup is what toc.get_collection(name).await answered
do_collection_exists(lookup) ==
    IF lookup.kind = "Ok" THEN CollectionExists(TRUE)
    ELSE IF lookup.kind = "NotFound" THEN CollectionExists(FALSE)
    ELSE lookup

(* ------------------------- do_create_snapshot ------------------------- *)

SnapshotDescription(name, creation_time, size, checksum) ==
    [name |-> name, creation_time |-> creation_time, size |-> size,
     checksum |-> checksum]

\* the description returned when the caller does not wait
PlaceholderSnapshot == SnapshotDescription("", None, 0, None)

\* Ok(SnapshotDescription)
SnapshotOk(description) == [kind |-> "Ok", snapshot |-> description]

\* the spawned task ended without a result of its own: it panicked or was cancelled
JoinError == [kind |-> "JoinError"]

\* StorageError::from(JoinError)
from_join_error ==
    Err("ServiceError", Description("Tokio task join error", <<>>, <<>>, <<>>, <<>>))

\* snapshot.await??: the outcome of the finished task, as the caller gets it
join(outcome) == IF outcome = JoinError THEN from_join_error ELSE outcome

\* tokio::spawn(async move { dispatcher.create_snapshot(&collection).await })
spawn == [finished |-> FALSE, outcome |-> [kind |-> "None"]]

NoResult == [kind |-> "None"]

\* (mutant) the caller waits for the task whatever wait says
do_create_snapshot_AlwaysWaits(wait) ==
    [wait |-> wait, task |-> spawn, pc |-> "awaiting", result |-> NoResult]

\* the call up to its first suspension: the task is spawned; without wait the call
\* has returned the placeholder, with wait it is suspended on the task's handle
do_create_snapshot(wait) ==
    IF wait
    THEN [wait |-> wait, task |-> spawn, pc |-> "awaiting", result |-> NoResult]
    ELSE [wait |-> wait, task |-> spawn, pc |-> "returned",
          result |-> SnapshotOk(PlaceholderSnapshot)]

(* ------------------------- consensus layer ---------------------------- *)

\* the replicated state after the consensus layer applies a committed mutation;
\* a start of an already active transfer key and a create of an existing shard
\* key are refused by its own conflict detection
apply_transfers(mutation) ==
    IF mutation.type # "TransferShard" THEN transfers
    ELSE LET o == mutation.operation
         IN  CASE o.type = "Start" ->
                      IF check_transfer_exists(key_of(o.transfer)) THEN transfers
                      ELSE transfers \cup {o.transfer}
               [] o.type = "Abort" ->
                      {t \in transfers : key_of(t) # o.transfer}
               [] o.type = "Restart" ->
                      {IF key_of(t) = key_of(o.transfer)
                       THEN [t EXCEPT !.method = o.transfer.method] ELSE t
                       : t \in transfers}

\* the keys whose transfer a committed abort removed and no start has added again
apply_aborted(mutation) ==
    IF mutation.type # "TransferShard" THEN aborted
    ELSE LET o == mutation.operation
         IN  CASE o.type = "Start" -> aborted \ {key_of(o.transfer)}
               [] o.type = "Abort" ->
                      IF check_transfer_exists(o.transfer)
                      THEN aborted \cup {o.transfer} ELSE aborted
               [] o.type = "Restart" -> aborted

apply_shards_key_mapping(mutation) ==
    CASE mutation.type = "CreateShardKey" ->
             IF mutation.shard_key \in DOMAIN shards_key_mapping THEN shards_key_mapping
             ELSE [k \in DOMAIN shards_key_mapping \cup {mutation.shard_key} |->
                      IF k = mutation.shard_key THEN mutation.placement
                      ELSE shards_key_mapping[k]]
      [] mutation.type = "DropShardKey" ->
             [k \in DOMAIN shards_key_mapping \ {mutation.shard_key} |->
                  shards_key_mapping[k]]
      [] OTHER -> shards_key_mapping

apply_replicas(mutation) ==
    IF mutation.type # "UpdateCollection" THEN replicas
    ELSE replicas \ {<<c.shard_id, c.peer_id>> :
                        c \in {mutation.shard_replica_changes[i] :
                                  i \in DOMAIN mutation.shard_replica_changes}}

(* ---------------------------- behaviour -------------------------------- *)

\* what dispatcher.get_collection(&collection_name) can answer
CollectionNotFound ==
    Err("NotFound", Description("Collection `{collection_name}` doesn't exist!",
                                <<>>, <<>>, <<>>, <<collection_name>>))

ServiceError == Err("ServiceError", Description("service error", <<>>, <<>>, <<>>, <<>>))

NoCall == [operation |-> [kind |-> "None"], result |-> Ok, submitted |-> <<>>]

NoGenInput == [pool |-> <<>>, shard_number |-> 0, replication_factor |-> 1]

NoGenOutput == [returned |-> FALSE, shuffled |-> <<>>, exact_placement |-> <<>>]

NoReply == [kind |-> "None"]

\* the dispatcher and collection a call can meet: distributed mode disabled, the
\* collection lookup failing, and a collection of each sharding method
Deployments ==
    {[consensus_state |-> FALSE, collection_lookup |-> Ok, method |-> Some("Custom")],
     [consensus_state |-> FALSE, collection_lookup |-> CollectionNotFound,
      method |-> Some("Custom")],
     [consensus_state |-> TRUE, collection_lookup |-> CollectionNotFound,
      method |-> Some("Custom")],
     [consensus_state |-> TRUE, collection_lookup |-> ServiceError,
      method |-> Some("Custom")],
     [consensus_state |-> TRUE, collection_lookup |-> Ok, method |-> None],
     [consensus_state |-> TRUE, collection_lookup |-> Ok, method |-> Some("Auto")],
     [consensus_state |-> TRUE, collection_lookup |-> Ok, method |-> Some("Custom")]}

\* the transfer that is under way when the first call arrives
InitialTransfer == ShardTransfer(0, 2, 1, FALSE, None)

\* a custom-sharded collection starts with the shard key "a"; "b" is free
InitialKeyMapping(method) ==
    IF method = Some("Custom") THEN [k \in {"a"} |-> <<<<1, 2>>>>] ELSE <<>>

InitCluster ==
    \E d \in Deployments :
        /\ consensus_state = d.consensus_state
        /\ collection_lookup = d.collection_lookup
        /\ peer_address_by_id = MemberPeerIds
        /\ shards = CollectionShardIds
        /\ config = [sharding_method |-> d.method, shard_number |-> 1,
                     replication_factor |-> 2]
        /\ shards_key_mapping = InitialKeyMapping(d.method)
        /\ transfers = {InitialTransfer}
        /\ replicas = CollectionShardIds \X MemberPeerIds
        /\ aborted = {}
        /\ pending = <<>>
        /\ last = NoCall
        /\ calls = 0

Init ==
    /\ InitCluster
    /\ gen_input = NoGenInput
    /\ gen_output = NoGenOutput
    /\ exists_reply = NoReply
    /\ snapshots = <<>>

\* the call gets to the operation's own checks: there is a consensus state and
\* the collection is found
ReachesValidation == consensus_state /\ collection_lookup.kind = "Ok"

\* the permutations the shuffle of the operation's pool can draw; only a
\* CreateShardingKey that gets to the generator draws one
DrawsOf(operation) ==
    IF /\ operation.kind = "CreateShardingKey"
       /\ ReachesValidation
       /\ CreateShardingKeyValidation(operation).kind = "Ok"
    THEN Shuffles(Len(peers_pool(operation)))
    ELSE Shuffles(0)

\* what the wait for the commit can answer; only a call that submits waits
WaitsOf(operation, rng) ==
    IF do_update_collection_cluster(operation, rng, Ok).submitted = <<>>
    THEN {Ok}
    ELSE WaitResults

\* one update-cluster request, from entry to return
UpdateCluster ==
    /\ calls < MaxCalls
    /\ Len(pending) < MaxPending
    /\ last = NoCall
    /\ \E operation \in ClusterOperations :
       \E rng \in DrawsOf(operation) :
       \E wait_result \in WaitsOf(operation, rng) :
          LET outcome == do_update_collection_cluster(operation, rng, wait_result)
          IN  /\ last' = [operation |-> operation, result |-> outcome.result,
                          submitted |-> outcome.submitted]
              /\ pending' = pending \o outcome.submitted
    /\ calls' = calls + 1
    /\ UNCHANGED <<cluster_vars, replicated_vars, gen_vars, service_vars>>

\* the caller has the result; the layer keeps nothing of the call
Return ==
    /\ last # NoCall
    /\ last' = NoCall
    /\ UNCHANGED <<cluster_vars, replicated_vars, pending, calls, gen_vars, service_vars>>

\* the consensus layer commits the oldest submitted mutation
Commit ==
    /\ pending # <<>>
    /\ transfers' = apply_transfers(Head(pending))
    /\ shards_key_mapping' = apply_shards_key_mapping(Head(pending))
    /\ replicas' = apply_replicas(Head(pending))
    /\ aborted' = apply_aborted(Head(pending))
    /\ pending' = Tail(pending)
    /\ UNCHANGED <<cluster_vars, last, calls, gen_vars, service_vars>>

Next == UpdateCluster \/ Return \/ Commit

Spec == Init /\ [][Next]_vars

(* ------------------ requests issued one at a time -------------------- *)

\* a request is made only once every earlier mutation has been committed
SerialUpdateCluster ==
    /\ pending = <<>>
    /\ UpdateCluster

SerialNext == SerialUpdateCluster \/ Return \/ Commit

SerialSpec == Init /\ [][SerialNext]_vars

(* ------------------- the placement generator alone -------------------- *)

GenInit ==
    /\ consensus_state = TRUE
    /\ collection_lookup = Ok
    /\ peer_address_by_id = MemberPeerIds
    /\ shards = CollectionShardIds
    /\ config = [sharding_method |-> Some("Custom"), shard_number |-> 1,
                 replication_factor |-> 2]
    /\ shards_key_mapping = <<>>
    /\ transfers = {}
    /\ replicas = CollectionShardIds \X MemberPeerIds
    /\ aborted = {}
    /\ pending = <<>>
    /\ last = NoCall
    /\ calls = 0
    /\ gen_input \in [pool : SeqsUpTo(1..MaxPool, MaxPool),
                      shard_number : 0..MaxShardNumber,
                      replication_factor : 1..MaxReplication]
    /\ gen_output = NoGenOutput
    /\ exists_reply = NoReply
    /\ snapshots = <<>>

\* one call of generate_even_placement on the drawn arguments
Generate ==
    /\ ~gen_output.returned
    /\ \E rng \in Shuffles(Len(gen_input.pool)) :
          gen_output' =
              [returned |-> TRUE,
               shuffled |-> shuffle(gen_input.pool, rng),
               exact_placement |->
                   generate_even_placement(gen_input.pool, gen_input.shard_number,
                                           gen_input.replication_factor, rng)]
    /\ UNCHANGED <<cluster_vars, replicated_vars, call_vars, gen_input, service_vars>>

GenNext == Generate

GenSpec == GenInit /\ [][GenNext]_vars

(* ------------------- a request and its retries ----------------------- *)

\* the first request of the caller
FirstCall ==
    /\ calls = 0
    /\ UpdateCluster

\* the transfer the request asked for completes and its record is removed: the
\* target holds the shard, and after a move the source has relinquished it
FinishTransfer ==
    /\ calls >= 1
    /\ pending = <<>>
    /\ last.operation.kind \in {"MoveShard", "ReplicateShard"}
    /\ \E t \in transfers :
          /\ key_of(t) = ShardTransferKey(last.operation.shard_id,
                                          last.operation.to_peer_id,
                                          last.operation.from_peer_id)
          /\ transfers' = transfers \ {t}
          /\ replicas' = (replicas \cup {<<t.shard_id, t.to>>})
                             \ (IF t.sync THEN {} ELSE {<<t.shard_id, t.from>>})
    /\ UNCHANGED <<cluster_vars, shards_key_mapping, aborted, call_vars, gen_vars,
                   service_vars>>

\* the caller, whose request was submitted and has been committed since, issues
\* the same operation again
Retry ==
    /\ calls >= 1
    /\ calls < MaxCalls
    /\ pending = <<>>
    /\ last.result.kind \in {"Ok", "Timeout"}
    /\ \E rng \in DrawsOf(last.operation) :
       \E wait_result \in WaitsOf(last.operation, rng) :
          LET outcome == do_update_collection_cluster(last.operation, rng, wait_result)
          IN  /\ last' = [operation |-> last.operation, result |-> outcome.result,
                          submitted |-> outcome.submitted]
              /\ pending' = pending \o outcome.submitted
    /\ calls' = calls + 1
    /\ UNCHANGED <<cluster_vars, replicated_vars, gen_vars, service_vars>>

RetryNext == FirstCall \/ Commit \/ FinishTransfer \/ Retry

RetrySpec == Init /\ [][RetryNext]_vars

(* ------------- collection-exists and create-snapshot ------------------ *)

\* what toc.get_collection(name) can answer: the collection, or a failure of any kind
LookupAnswers ==
    {Ok, CollectionNotFound, ServiceError,
     Err("Timeout", Description("Operation timed out", <<>>, <<>>, <<>>, <<>>)),
     Err("BadRequest", Description("bad request", <<>>, <<>>, <<>>, <<>>))}

\* the snapshot of a finished dispatcher.create_snapshot
CreatedSnapshot == SnapshotDescription("collection.snapshot", Some("now"), 1, Some("sha"))

\* how a spawned task can end: with a snapshot, with a failure, or without a result
TaskOutcomes == {SnapshotOk(CreatedSnapshot), ServiceError, CollectionNotFound, JoinError}

ServiceInit ==
    /\ consensus_state = TRUE
    /\ collection_lookup \in LookupAnswers
    /\ peer_address_by_id = MemberPeerIds
    /\ shards = CollectionShardIds
    /\ config = [sharding_method |-> Some("Custom"), shard_number |-> 1,
                 replication_factor |-> 2]
    /\ shards_key_mapping = <<>>
    /\ transfers = {}
    /\ replicas = CollectionShardIds \X MemberPeerIds
    /\ aborted = {}
    /\ pending = <<>>
    /\ last = NoCall
    /\ calls = 0
    /\ gen_input = NoGenInput
    /\ gen_output = NoGenOutput
    /\ exists_reply = NoReply
    /\ snapshots = <<>>

\* one collection-exists request, from entry to return
CollectionExistsCall ==
    /\ exists_reply = NoReply
    /\ exists_reply' = do_collection_exists(collection_lookup)
    /\ UNCHANGED <<cluster_vars, replicated_vars, call_vars, gen_vars, snapshots>>

\* one create-snapshot request, from entry to its return or its suspension
CreateSnapshot ==
    /\ Len(snapshots) < MaxSnapshotCalls
    /\ \E wait \in BOOLEAN : snapshots' = Append(snapshots, do_create_snapshot(wait))
    /\ UNCHANGED <<cluster_vars, replicated_vars, call_vars, gen_vars, exists_reply>>

\* a spawned task ends, whether or not anybody waits for it
SnapshotTaskEnds ==
    /\ \E i \in DOMAIN snapshots :
          /\ ~snapshots[i].task.finished
          /\ \E outcome \in TaskOutcomes :
                snapshots' = [snapshots EXCEPT ![i].task =
                                 [finished |-> TRUE, outcome |-> outcome]]
    /\ UNCHANGED <<cluster_vars, replicated_vars, call_vars, gen_vars, exists_reply>>

\* a suspended create-snapshot call resumes once its task has ended, and returns
CreateSnapshotReturns ==
    /\ \E i \in DOMAIN snapshots :
          /\ snapshots[i].pc = "awaiting"
          /\ snapshots[i].task.finished
          /\ snapshots' = [snapshots EXCEPT ![i].pc = "returned",
                                            ![i].result = join(snapshots[i].task.outcome)]
    /\ UNCHANGED <<cluster_vars, replicated_vars, call_vars, gen_vars, exists_reply>>

ServiceNext ==
    CollectionExistsCall \/ CreateSnapshot \/ SnapshotTaskEnds \/ CreateSnapshotReturns

ServiceSpec == ServiceInit /\ [][ServiceNext]_vars

(* ============================== claims ================================= *)

Range(seq) == {seq[i] : i \in DOMAIN seq}

IsDistinct(seq) == \A i, j \in DOMAIN seq : seq[i] = seq[j] => i = j

\* the step is an update-cluster call; last' is what it did
CallStep == calls' = calls + 1

ValidationFailure(result) == result.kind \in {"BadRequest", "NotFound"}

\* C1: a call that returns BadRequest or NotFound, whatever the operation and the
\* state it ran against, submitted no mutation (the queue of submitted mutations is as
\* it was) and left the replicated state as it was.
C1_RejectedSubmitsNothing ==
    [][(CallStep /\ ValidationFailure(last'.result)) =>
           /\ last'.submitted = <<>>
           /\ pending' = pending
           /\ replicated_vars' = replicated_vars]_vars

\* a MoveShard naming an unknown shard was rejected while an earlier mutation is
\* still waiting to be committed
C1_Witness ==
    /\ last.operation.kind = "MoveShard"
    /\ last.operation.shard_id \notin shards
    /\ last.result.kind = "BadRequest"
    /\ last.submitted = <<>>
    /\ Len(pending) = 1

\* C2: for a pool of P >= 1 distinct peers, S >= 0 shards and a factor R >= 1,
\* generate_even_placement returns S entries, each of min(R, P) pairwise distinct
\* peers of the pool; with R >= P each entry holds the whole pool.
C2_PlacementShape ==
    (gen_output.returned /\ Len(gen_input.pool) >= 1 /\ IsDistinct(gen_input.pool)) =>
        LET P == Len(gen_input.pool)
            R == gen_input.replication_factor
            placement == gen_output.exact_placement
        IN  /\ Len(placement) = gen_input.shard_number
            /\ \A i \in DOMAIN placement :
                  /\ Len(placement[i]) = Min(R, P)
                  /\ IsDistinct(placement[i])
                  /\ Range(placement[i]) \subseteq Range(gen_input.pool)
                  /\ R >= P => Range(placement[i]) = Range(gen_input.pool)

\* three shards were generated from a pool of two peers with a factor above two
C2_Witness ==
    /\ gen_output.returned
    /\ IsDistinct(gen_input.pool)
    /\ Len(gen_input.pool) = 2
    /\ gen_input.replication_factor > 2
    /\ gen_input.shard_number = 3
    /\ Len(gen_output.exact_placement) = 3

\* the peer ids an operation names: to and from, the replica's peer, or the
\* members of an explicit placement list
NamedPeers(operation) ==
    CASE operation.kind \in {"MoveShard", "ReplicateShard", "AbortTransfer",
                             "RestartTransfer"} ->
             <<operation.to_peer_id, operation.from_peer_id>>
      [] operation.kind = "DropReplica" -> <<operation.peer_id>>
      [] operation.kind = "CreateShardingKey" ->
             IF operation.placement = None THEN <<>> ELSE operation.placement[1]
      [] OTHER -> <<>>

UnknownPeers(operation) == Range(NamedPeers(operation)) \ peer_address_by_id

\* a check that the code runs before it looks at the operation's peers fails
EarlierCheckFails(operation) ==
    CASE operation.kind \in {"MoveShard", "ReplicateShard", "DropReplica"} ->
             operation.shard_id \notin shards
      [] operation.kind = "CreateShardingKey" ->
             \/ sharding_method = "Auto"
             \/ operation.shard_key \in DOMAIN shards_key_mapping
      [] OTHER -> FALSE

C4_UnknownShardRejected ==
    (/\ collection_lookup.kind = "Ok"
     /\ last.operation.kind \in {"MoveShard", "ReplicateShard", "DropReplica"}
     /\ last.operation.shard_id \notin shards) =>
        /\ last.result.kind = "BadRequest"
        /\ last.submitted = <<>>
        /\ consensus_state =>
               last.result.description.shard_ids = <<last.operation.shard_id>>

\* a DropReplica of a member's replica of a shard that does not exist was rejected
C4_Witness ==
    /\ ReachesValidation
    /\ last.operation.kind = "DropReplica"
    /\ last.operation.shard_id \notin shards
    /\ last.operation.peer_id \in peer_address_by_id
    /\ last.result.kind = "BadRequest"
    /\ last.submitted = <<>>

\* the transfer key an AbortTransfer or RestartTransfer operation names
OperationTransferKey(operation) ==
    [shard_id |-> operation.shard_id, to |-> operation.to_peer_id,
     from |-> operation.from_peer_id]

Accepted(result) == result.kind \in {"Ok", "Timeout"}

\* C5: AbortTransfer and RestartTransfer whose (shard_id, from, to) matches no known
\* transfer fail with NotFound and submit nothing; when it matches one they are
\* accepted and their abort / restart of that key is submitted.
C5_TransferLookupDecides ==
    [][(/\ CallStep
        /\ ReachesValidation
        /\ last'.operation.kind \in {"AbortTransfer", "RestartTransfer"}) =>
           LET key == OperationTransferKey(last'.operation)
           IN  IF \E t \in transfers :
                      t.shard_id = key.shard_id /\ t.from = key.from /\ t.to = key.to
               THEN /\ Accepted(last'.result)
                    /\ Len(last'.submitted) = 1
                    /\ last'.submitted[1].operation.type =
                           (IF last'.operation.kind = "AbortTransfer"
                            THEN "Abort" ELSE "Restart")
                    /\ last'.submitted[1].operation.transfer.shard_id = key.shard_id
                    /\ last'.submitted[1].operation.transfer.from = key.from
                    /\ last'.submitted[1].operation.transfer.to = key.to
                    /\ pending' = Append(pending, last'.submitted[1])
               ELSE /\ last'.result.kind = "NotFound"
                    /\ last'.submitted = <<>>
                    /\ pending' = pending]_vars

\* a RestartTransfer between two members, for a shard that exists, was answered
\* NotFound because no transfer has its key, while another transfer is active
C5_Witness ==
    /\ ReachesValidation
    /\ last.operation.kind = "RestartTransfer"
    /\ last.operation.shard_id \in shards
    /\ {last.operation.from_peer_id, last.operation.to_peer_id}
           \subseteq peer_address_by_id
    /\ last.result.kind = "NotFound"
    /\ last.submitted = <<>>
    /\ transfers # {}
    /\ \A t \in transfers : key_of(t) # OperationTransferKey(last.operation)

\* C6: once a committed AbortTransfer has removed a transfer, and for as long as no
\* start of that key has been committed since, the transfer is gone and a further
\* AbortTransfer of the key is answered NotFound and submits nothing.
C6_NoDoubleAbort ==
    /\ [](\A key \in aborted : \A t \in transfers : key_of(t) # key)
    /\ [][(/\ CallStep
           /\ ReachesValidation
           /\ last'.operation.kind = "AbortTransfer"
           /\ OperationTransferKey(last'.operation) \in aborted) =>
              /\ last'.result.kind = "NotFound"
              /\ last'.submitted = <<>>
              /\ pending' = pending]_vars

\* the second call repeats an AbortTransfer whose first submission was committed
\* and removed the transfer: it was answered NotFound and nothing is waiting
C6_Witness ==
    /\ calls = 2
    /\ last.operation.kind = "AbortTransfer"
    /\ OperationTransferKey(last.operation) \in aborted
    /\ OperationTransferKey(last.operation) = key_of(InitialTransfer)
    /\ last.result.kind = "NotFound"
    /\ pending = <<>>
    /\ transfers = {}

\* C7: on a (found) collection whose sharding method is Auto or unset,
\* CreateShardingKey and DropShardingKey fail with BadRequest and submit nothing,
\* whatever key, shard number, replication factor and placement they carry; once
\* the consensus state is there the error is the sharding-method one.
C7_AutoShardingRejected ==
    (/\ collection_lookup.kind = "Ok"
     /\ config.sharding_method \in {None, Some("Auto")}
     /\ last.operation.kind \in {"CreateShardingKey", "DropShardingKey"}) =>
        /\ last.result.kind = "BadRequest"
        /\ last.submitted = <<>>
        /\ consensus_state =>
               last.result.description.text =
                   "Shard Key cannot be created with Auto sharding method"

\* a CreateShardingKey without placement, which every other check would let
\* through, was rejected on a collection whose sharding method is unset
C7_Witness ==
    /\ ReachesValidation
    /\ config.sharding_method = None
    /\ last.operation.kind = "CreateShardingKey"
    /\ last.operation.placement = None
    /\ last.operation.shard_key \notin DOMAIN shards_key_mapping
    /\ last.result.kind = "BadRequest"
    /\ last.submitted = <<>>

\* the step commits the oldest submitted mutation
CommitStep == pending # <<>> /\ pending' = Tail(pending)

\* C8: under custom sharding CreateShardingKey of a key that is in the mapping and
\* DropShardingKey of a key that is not fail with BadRequest and submit nothing; so
\* when requests are issued one at a time every committed create finds its key
\* absent and adds it, and every committed drop finds its key present and removes it.
C8_ShardKeyNamespace ==
    /\ [][(CallStep /\ ReachesValidation /\ sharding_method = "Custom") =>
              /\ (/\ last'.operation.kind = "CreateShardingKey"
                  /\ last'.operation.shard_key \in DOMAIN shards_key_mapping) =>
                     /\ last'.result.kind = "BadRequest"
                     /\ last'.submitted = <<>>
                     /\ pending' = pending
              /\ (/\ last'.operation.kind = "DropShardingKey"
                  /\ last'.operation.shard_key \notin DOMAIN shards_key_mapping) =>
                     /\ last'.result.kind = "BadRequest"
                     /\ last'.submitted = <<>>
                     /\ pending' = pending]_vars
    /\ [][CommitStep =>
              /\ Head(pending).type = "CreateShardKey" =>
                     /\ Head(pending).shard_key \notin DOMAIN shards_key_mapping
                     /\ Head(pending).shard_key \in DOMAIN shards_key_mapping'
              /\ Head(pending).type = "DropShardKey" =>
                     /\ Head(pending).shard_key \in DOMAIN shards_key_mapping
                     /\ Head(pending).shard_key \notin DOMAIN shards_key_mapping']_vars

\* the key "b", free at first, was created by a committed CreateShardingKey, and the
\* second call's CreateShardingKey of "b" was rejected
C8_Witness ==
    /\ calls = 2
    /\ last.operation.kind = "CreateShardingKey"
    /\ last.operation.shard_key = "b"
    /\ "b" \in DOMAIN shards_key_mapping
    /\ last.result.kind = "BadRequest"
    /\ last.result.description.shard_keys = <<"b">>
    /\ pending = <<>>

\* C9: a CreateShardingKey with an explicit placement list fails with BadRequest
\* when the list is empty and when a listed peer is no member, and submits nothing;
\* for a free key under custom sharding it is accepted exactly when the list is not
\* empty and every listed peer is a member.
C9_ExplicitPlacement ==
    [][(/\ CallStep
        /\ ReachesValidation
        /\ last'.operation.kind = "CreateShardingKey"
        /\ last'.operation.placement # None) =>
           LET placement == last'.operation.placement[1]
               members == Range(placement) \subseteq peer_address_by_id
           IN  /\ (placement = <<>> \/ ~members) =>
                      /\ last'.result.kind = "BadRequest"
                      /\ last'.submitted = <<>>
                      /\ pending' = pending
               /\ (/\ sharding_method = "Custom"
                   /\ last'.operation.shard_key \notin DOMAIN shards_key_mapping) =>
                      /\ Accepted(last'.result) <=> (placement # <<>> /\ members)
                      /\ Len(last'.submitted) = (IF placement # <<>> /\ members
                                                 THEN 1 ELSE 0)
                      /\ placement = <<>> =>
                             last'.result = PlacementCannotBeEmpty(
                                                last'.operation.shard_key)]_vars

\* a CreateShardingKey of a free key under custom sharding with an empty explicit
\* placement list was rejected
C9_Witness ==
    /\ ReachesValidation
    /\ sharding_method = "Custom"
    /\ last.operation.kind = "CreateShardingKey"
    /\ last.operation.shard_key \notin DOMAIN shards_key_mapping
    /\ last.operation.placement = Some(<<>>)
    /\ last.result.kind = "BadRequest"
    /\ last.submitted = <<>>

\* the type of mutation, and of transfer operation, each operation kind maps to
MutationTypeOf(kind) ==
    CASE kind \in {"MoveShard", "ReplicateShard", "AbortTransfer", "RestartTransfer"} ->
             "TransferShard"
      [] kind = "DropReplica" -> "UpdateCollection"
      [] kind = "CreateShardingKey" -> "CreateShardKey"
      [] kind = "DropShardingKey" -> "DropShardKey"

TransferOperationOf(kind) ==
    CASE kind \in {"MoveShard", "ReplicateShard"} -> "Start"
      [] kind = "AbortTransfer" -> "Abort"
      [] kind = "RestartTransfer" -> "Restart"

\* C10: a call that is not rejected submits exactly one mutation, of the kind its
\* operation fixes: MoveShard a transfer start with sync = FALSE, ReplicateShard a
\* transfer start with sync = TRUE, AbortTransfer a transfer abort, RestartTransfer
\* a transfer restart, DropReplica an update-collection whose only change is
\* Remove(shard_id, peer_id), CreateShardingKey a create-shard-key and
\* DropShardingKey a drop-shard-key.
C10_OneMutationPerOperation ==
    [][(CallStep /\ Accepted(last'.result)) =>
           LET operation == last'.operation
               kind == operation.kind
           IN  /\ Len(last'.submitted) = 1
               /\ pending' = Append(pending, last'.submitted[1])
               /\ LET mutation == last'.submitted[1]
                  IN  /\ mutation.type = MutationTypeOf(kind)
                      /\ mutation.type = "TransferShard" =>
                             mutation.operation.type = TransferOperationOf(kind)
                      /\ kind = "MoveShard" => mutation.operation.transfer.sync = FALSE
                      /\ kind = "ReplicateShard" =>
                             mutation.operation.transfer.sync = TRUE
                      /\ kind = "DropReplica" =>
                             mutation.shard_replica_changes =
                                 <<[type |-> "Remove",
                                    shard_id |-> operation.shard_id,
                                    peer_id |-> operation.peer_id]>>]_vars

\* a ReplicateShard was accepted behind a mutation that is still waiting, and its
\* transfer start with sync = TRUE is the newest submitted mutation
C10_Witness ==
    /\ last.operation.kind = "ReplicateShard"
    /\ Accepted(last.result)
    /\ Len(pending) = 2
    /\ pending[2] = last.submitted[1]
    /\ pending[2].operation.type = "Start"
    /\ pending[2].operation.transfer.sync = TRUE

\* C11: the mutation an accepted MoveShard, ReplicateShard, RestartTransfer or
\* AbortTransfer submits carries the operation's shard id as its shard id, the
\* operation's from peer as its from and the operation's to peer as its to, and
\* for MoveShard, ReplicateShard and RestartTransfer the operation's method.
C11_TransferFieldsCarried ==
    [][(/\ CallStep
        /\ Accepted(last'.result)
        /\ last'.operation.kind \in {"MoveShard", "ReplicateShard", "RestartTransfer",
                                     "AbortTransfer"}) =>
           LET operation == last'.operation
               transfer == last'.submitted[1].operation.transfer
           IN  /\ transfer.shard_id = operation.shard_id
               /\ transfer.from = operation.from_peer_id
               /\ transfer.to = operation.to_peer_id
               /\ operation.kind # "AbortTransfer" =>
                      transfer.method = operation.method]_vars

\* a MoveShard from one member to another, with the snapshot method, was accepted
\* and its transfer start is waiting to be committed
C11_Witness ==
    /\ last.operation.kind = "MoveShard"
    /\ last.operation.from_peer_id = 1
    /\ last.operation.to_peer_id = 2
    /\ last.operation.method = Some("snapshot")
    /\ Accepted(last.result)
    /\ Len(last.submitted) = 1
    /\ last.submitted[1].operation.transfer.from = 1
    /\ last.submitted[1].operation.transfer.to = 2

\* the peers of a placement, shard after shard
RECURSIVE Flatten(_)
Flatten(placement) ==
    IF placement = <<>> THEN <<>> ELSE Head(placement) \o Flatten(Tail(placement))

\* the orders a pool can be put in
Arrangements(pool) == {[i \in 1..Len(pool) |-> pool[f[i]]] : f \in Shuffles(Len(pool))}

\* flat walks perm from its first peer on, starting over after the last
IsCyclicWalk(flat, perm) ==
    \A k \in DOMAIN flat : flat[k] = perm[((k - 1) % Len(perm)) + 1]

\* the shard number and replication factor a CreateShardingKey asks for: its own,
\* else the collection's
RequestedShardNumber(operation) ==
    IF operation.shards_number = None THEN config.shard_number
    ELSE operation.shards_number[1]

RequestedReplicationFactor(operation) ==
    IF operation.replication_factor = None THEN config.replication_factor
    ELSE operation.replication_factor[1]

\* C12 as stated: the placement of the create-shard-key mutation an accepted
\* CreateShardingKey with an explicit placement list submits is that list; in the
\* weakest reading, the peers the placement holds are the peers of the list.
C12_AsStated ==
    (/\ last.operation.kind = "CreateShardingKey"
     /\ Accepted(last.result)
     /\ last.operation.placement # None) =>
        Range(Flatten(last.submitted[1].placement)) = Range(last.operation.placement[1])

\* C12, amended: the placement an accepted CreateShardingKey submits is one
\* generator draw over a pool, for the requested (else the collection's) shard
\* number S and replication factor R: S peer-sets of min(R, |pool|) peers that walk
\* one arrangement of the pool cyclically.  The pool is the explicit placement list
\* when one is supplied and the full known peer set when it is omitted; an
\* explicit list is a pool to draw from, not the placement itself.
C12_PlacementIsDrawOverPool ==
    [][(/\ CallStep
        /\ Accepted(last'.result)
        /\ last'.operation.kind = "CreateShardingKey") =>
           LET operation == last'.operation
               placement == last'.submitted[1].placement
               pools == IF operation.placement # None
                        THEN {operation.placement[1]}
                        ELSE {q \in [1..Cardinality(peer_address_by_id) ->
                                        peer_address_by_id] : IsDistinct(q)}
           IN  \E pool \in pools :
                  /\ Len(placement) = RequestedShardNumber(operation)
                  /\ \A i \in DOMAIN placement :
                        Len(placement[i]) =
                            Min(RequestedReplicationFactor(operation), Len(pool))
                  /\ \E perm \in Arrangements(pool) :
                        IsCyclicWalk(Flatten(placement), perm)]_vars

\* a CreateShardingKey listing the members 1 and 2, for one shard with one replica,
\* was accepted and the placement it submitted holds peer 2 alone
C12_Witness ==
    /\ last.operation.kind = "CreateShardingKey"
    /\ last.operation.placement = Some(<<1, 2>>)
    /\ RequestedShardNumber(last.operation) = 1
    /\ RequestedReplicationFactor(last.operation) = 1
    /\ Accepted(last.result)
    /\ last.submitted[1].placement = <<<<2>>>>

\* C13: collection-exists answers exists = TRUE when the collection lookup
\* succeeds, answers exists = FALSE, a success, when the lookup fails with NotFound,
\* and answers the lookup's failure, unchanged, when it fails in any other way.
C13_ExistsFromLookup ==
    exists_reply # NoReply =>
        /\ collection_lookup.kind = "Ok" => exists_reply = [kind |-> "Ok", exists |-> TRUE]
        /\ collection_lookup.kind = "NotFound" =>
               exists_reply = [kind |-> "Ok", exists |-> FALSE]
        /\ collection_lookup.kind \notin {"Ok", "NotFound"} =>
               exists_reply = collection_lookup

\* the lookup fails with NotFound and collection-exists answered exists = FALSE
C13_Witness ==
    /\ collection_lookup.kind = "NotFound"
    /\ exists_reply.kind = "Ok"
    /\ exists_reply.exists = FALSE

\* C14: a create-snapshot call with wait = FALSE has returned the placeholder
\* description as soon as its task is spawned, and keeps that result whether the
\* task is still running, has produced a snapshot or has failed; a call with
\* wait = TRUE has returned only once its task has ended, with the task's snapshot
\* description or with a failure (the task's own, when it has one); and no result
\* a caller has got ever changes.
C14_DetachedSnapshot ==
    /\ [](\A i \in DOMAIN snapshots :
             LET call == snapshots[i]
             IN  /\ ~call.wait =>
                        /\ call.pc = "returned"
                        /\ call.result = [kind |-> "Ok", snapshot |->
                                             [name |-> "", creation_time |-> <<>>,
                                              size |-> 0, checksum |-> <<>>]]
                 /\ (call.wait /\ call.pc = "returned") =>
                        /\ call.task.finished
                        /\ call.task.outcome.kind = "Ok" => call.result = call.task.outcome
                        /\ call.task.outcome.kind # "Ok" =>
                               call.result.kind \notin {"Ok", "None"}
                        /\ call.task.outcome.kind \notin {"Ok", "JoinError"} =>
                               call.result = call.task.outcome)
    /\ [][\A i \in DOMAIN snapshots :
             snapshots[i].pc = "returned" =>
                 /\ snapshots'[i].pc = "returned"
                 /\ snapshots'[i].result = snapshots[i].result]_vars

\* a call that did not wait has the placeholder while its task has failed since,
\* and a later call that waits is still suspended on its running task
C14_Witness ==
    /\ Len(snapshots) = 2
    /\ ~snapshots[1].wait
    /\ snapshots[1].result = SnapshotOk(PlaceholderSnapshot)
    /\ snapshots[1].task.finished
    /\ snapshots[1].task.outcome = ServiceError
    /\ snapshots[2].wait
    /\ snapshots[2].pc = "awaiting"
    /\ ~snapshots[2].task.finished

\* C15: for a pool of P distinct peers, S shards and a factor R with
\* S * min(R, P) >= P, every peer of the pool is in the peer-set of at least one
\* shard, whatever permutation the shuffle draws.
C15_FullCoverage ==
    (/\ gen_output.returned
     /\ IsDistinct(gen_input.pool)
     /\ gen_input.shard_number
            * Min(gen_input.replication_factor, Len(gen_input.pool))
        >= Len(gen_input.pool)) =>
        \A peer \in Range(gen_input.pool) :
            \E i \in DOMAIN gen_output.exact_placement :
                peer \in Range(gen_output.exact_placement[i])

\* three shards of one replica were generated from a pool of three distinct peers,
\* and the three shards hold three different peers
C15_Witness ==
    /\ gen_output.returned
    /\ IsDistinct(gen_input.pool)
    /\ Len(gen_input.pool) = 3
    /\ gen_input.shard_number = 3
    /\ gen_input.replication_factor = 1
    /\ Cardinality({gen_output.exact_placement[i][1] :
                       i \in DOMAIN gen_output.exact_placement}) = 3

\* the number of shards whose peer-set holds the peer
ShardsOf(peer, placement) ==
    Cardinality({i \in DOMAIN placement : peer \in Range(placement[i])})

\* C19: with P = |pool| >= 1, e = min(R, P) and perm the shuffled pool, generate
\* returns S peer-sets of e peers and replica j of shard i is
\* perm[(i * e + j) mod P], for 0 <= i < S and 0 <= j < e; and when the peers of
\* the pool are distinct, the numbers of shards assigned to any two of them differ
\* by at most one.
C19_CyclicWalk ==
    (gen_output.returned /\ Len(gen_input.pool) >= 1) =>
        LET P == Len(gen_input.pool)
            e == Min(gen_input.replication_factor, P)
            perm == gen_output.shuffled
            placement == gen_output.exact_placement
        IN  /\ Len(perm) = P
            /\ \A peer \in Range(gen_input.pool) :
                  Cardinality({k \in 1..P : perm[k] = peer})
                      = Cardinality({k \in 1..P : gen_input.pool[k] = peer})
            /\ Len(placement) = gen_input.shard_number
            /\ \A i \in 0..(gen_input.shard_number - 1) :
                  /\ Len(placement[i + 1]) = e
                  /\ \A j \in 0..(e - 1) :
                        placement[i + 1][j + 1] = perm[((i * e + j) % P) + 1]
            /\ IsDistinct(gen_input.pool) =>
                   \A p, q \in Range(gen_input.pool) :
                       /\ ShardsOf(p, placement) - ShardsOf(q, placement) <= 1
                       /\ ShardsOf(q, placement) - ShardsOf(p, placement) <= 1

\* three shards of two replicas were generated from a pool of three distinct peers
\* that the shuffle reordered: the walk wraps inside the second shard
C19_Witness ==
    /\ gen_output.returned
    /\ gen_input.pool = <<1, 2, 3>>
    /\ gen_output.shuffled = <<3, 1, 2>>
    /\ gen_input.shard_number = 3
    /\ gen_input.replication_factor = 2
    /\ gen_output.exact_placement = <<<<3, 1>>, <<2, 3>>, <<1, 2>>>>

\* C16: each peer-set of the placement an accepted CreateShardingKey submits, with
\* or without an explicit placement list, has no duplicate peer and holds
\* min(requested replication factor, pool size) peers.
C16_PeerSetsDistinct ==
    (last.operation.kind = "CreateShardingKey" /\ Accepted(last.result)) =>
        LET placement == last.submitted[1].placement
            pool_size == IF last.operation.placement # None
                         THEN Len(last.operation.placement[1])
                         ELSE Cardinality(peer_address_by_id)
        IN  \A i \in DOMAIN placement :
               /\ IsDistinct(placement[i])
               /\ Len(placement[i]) =
                      Min(RequestedReplicationFactor(last.operation), pool_size)

\* C17: a request is judged against the committed state alone, never against a
\* mutation that is submitted and not yet committed: a CreateShardingKey of a key
\* the mapping lacks (custom sharding, no explicit placement), a DropShardingKey
\* of a key the mapping has and an AbortTransfer of an active transfer are
\* accepted and submitted whatever is in flight.  So two requests can both pass
\* validation against the same snapshot and both submit, although the second
\* would have been rejected once the first was committed.
C17_NoInFlightRejection ==
    [][(CallStep /\ ReachesValidation) =>
           LET operation == last'.operation
               passes ==
                   \/ /\ operation.kind = "CreateShardingKey"
                      /\ sharding_method = "Custom"
                      /\ operation.shard_key \notin DOMAIN shards_key_mapping
                      /\ operation.placement = None
                   \/ /\ operation.kind = "DropShardingKey"
                      /\ sharding_method = "Custom"
                      /\ operation.shard_key \in DOMAIN shards_key_mapping
                   \/ /\ operation.kind = "AbortTransfer"
                      /\ \E t \in transfers :
                            /\ t.shard_id = operation.shard_id
                            /\ t.from = operation.from_peer_id
                            /\ t.to = operation.to_peer_id
           IN  passes =>
                   /\ Accepted(last'.result)
                   /\ Len(last'.submitted) = 1
                   /\ pending' = Append(pending, last'.submitted[1])]_vars

\* two CreateShardingKey requests for the key "b" were both accepted while "b" is
\* not in the mapping: both create-shard-key mutations are waiting to be committed
C17_Witness ==
    /\ calls = 2
    /\ "b" \notin DOMAIN shards_key_mapping
    /\ last.operation.kind = "CreateShardingKey"
    /\ last.operation.shard_key = "b"
    /\ Accepted(last.result)
    /\ Len(pending) = 2
    /\ \A i \in {1, 2} : pending[i].type = "CreateShardKey" /\ pending[i].shard_key = "b"

\* C18: the replicated state never holds two active transfers with the same
\* (shard_id, from, to); a MoveShard or ReplicateShard for an existing shard between
\* members is accepted and its start submitted also when a transfer with its key is
\* active, the presence of a transfer being looked up for AbortTransfer and
\* RestartTransfer only; the duplicate start is refused when it is committed.
C18_OneTransferPerKey ==
    /\ [](\A t1, t2 \in transfers : key_of(t1) = key_of(t2) => t1 = t2)
    /\ [][(/\ CallStep
           /\ ReachesValidation
           /\ last'.operation.kind \in {"MoveShard", "ReplicateShard"}
           /\ last'.operation.shard_id \in shards
           /\ {last'.operation.to_peer_id, last'.operation.from_peer_id}
                  \subseteq peer_address_by_id) =>
              /\ Accepted(last'.result)
              /\ Len(last'.submitted) = 1
              /\ last'.submitted[1].operation.type = "Start"
              /\ pending' = Append(pending, last'.submitted[1])]_vars
    /\ [][(/\ CallStep
           /\ ReachesValidation
           /\ last'.operation.kind \in {"AbortTransfer", "RestartTransfer"}
           /\ \A t \in transfers :
                 key_of(t) # OperationTransferKey(last'.operation)) =>
              last'.submitted = <<>>]_vars

\* a MoveShard with the key of the active transfer, and another method, was accepted
\* and its start has been committed: the active transfer is the only one
C18_Witness ==
    /\ calls = 1
    /\ last.operation.kind = "MoveShard"
    /\ OperationTransferKey(last.operation) = key_of(InitialTransfer)
    /\ last.operation.method # InitialTransfer.method
    /\ Accepted(last.result)
    /\ pending = <<>>
    /\ transfers = {InitialTransfer}

\* the failure of the operation's own checks names what caused it: the shard for an
\* unknown shard, the peer for an unknown peer, shard, from and to for an unknown
\* transfer, the shard key for a shard-key failure; the sharding-method failure
\* names the shard key when method_names_key, and else names nothing
FailureNamesCause(operation, result, method_names_key) ==
    LET named == result.description
        names_peer == /\ named.peer_ids # <<>>
                      /\ Range(named.peer_ids) \subseteq UnknownPeers(operation)
        names_key == named.shard_keys = <<operation.shard_key>>
        by_method == IF method_names_key THEN names_key
                     ELSE /\ named.shard_keys = <<>>
                          /\ named.peer_ids = <<>>
                          /\ named.shard_ids = <<>>
                          /\ named.collection_names = <<>>
    IN  CASE operation.kind \in {"MoveShard", "ReplicateShard", "DropReplica"} ->
                 IF operation.shard_id \notin shards
                 THEN named.shard_ids = <<operation.shard_id>>
                 ELSE names_peer
          [] operation.kind \in {"AbortTransfer", "RestartTransfer"} ->
                 /\ named.shard_ids = <<operation.shard_id>>
                 /\ named.peer_ids = <<operation.from_peer_id, operation.to_peer_id>>
          [] operation.kind = "CreateShardingKey" ->
                 IF sharding_method = "Auto" THEN by_method
                 ELSE IF \/ operation.shard_key \in DOMAIN shards_key_mapping
                         \/ operation.placement = Some(<<>>)
                 THEN names_key
                 ELSE names_peer
          [] operation.kind = "DropShardingKey" ->
                 IF sharding_method = "Auto" THEN by_method ELSE names_key

\* C20 as stated: every failure of update-cluster names the identifier that caused
\* it, the sharding-method failure of CreateShardingKey and DropShardingKey naming
\* the shard key.
C20_AsStated ==
    [][(CallStep /\ ReachesValidation /\ ValidationFailure(last'.result)) =>
           FailureNamesCause(last'.operation, last'.result, TRUE)]_vars

\* C20, amended: every failure of an operation's own checks names the identifier
\* that caused it (the peer id, the shard id, the shard key, or shard id, from and
\* to of the transfer), except the sharding-method failure of CreateShardingKey
\* and DropShardingKey, whose message is fixed and names no identifier at all.
C20_FailuresNameCause ==
    [][(CallStep /\ ReachesValidation /\ ValidationFailure(last'.result)) =>
           FailureNamesCause(last'.operation, last'.result, FALSE)]_vars

\* a DropShardingKey of the key "a" on a collection with Auto sharding was rejected
\* with an error that names no shard key
C20_Witness ==
    /\ ReachesValidation
    /\ sharding_method = "Auto"
    /\ last.operation.kind = "DropShardingKey"
    /\ last.operation.shard_key = "a"
    /\ last.result.kind = "BadRequest"
    /\ last.result.description.shard_keys = <<>>
    /\ last.submitted = <<>>

\* C22: without a consensus state every operation fails with the BadRequest
\* "Distributed mode disabled", also when the collection does not exist and
\* whatever the operation's own checks would say, and submits nothing; with a
\* consensus state a failed collection lookup is returned as it is, whatever the
\* operation, and nothing is submitted.
C22_Preludes ==
    [][CallStep =>
           /\ ~consensus_state =>
                  /\ last'.result.kind = "BadRequest"
                  /\ last'.result.description =
                         [text |-> "Distributed mode disabled", peer_ids |-> <<>>,
                          shard_ids |-> <<>>, shard_keys |-> <<>>,
                          collection_names |-> <<>>]
                  /\ last'.submitted = <<>>
                  /\ pending' = pending
           /\ (consensus_state /\ collection_lookup.kind # "Ok") =>
                  /\ last'.result = collection_lookup
                  /\ last'.submitted = <<>>
                  /\ pending' = pending]_vars

\* distributed mode is disabled and the collection does not exist: a MoveShard
\* between members was answered BadRequest, not the lookup's NotFound
C22_Witness ==
    /\ ~consensus_state
    /\ collection_lookup.kind = "NotFound"
    /\ last.operation.kind = "MoveShard"
    /\ {last.operation.to_peer_id, last.operation.from_peer_id} \subseteq peer_address_by_id
    /\ last.result.kind = "BadRequest"
    /\ last.result.description.text = "Distributed mode disabled"
    /\ last.submitted = <<>>

\* the step re-issues the operation of a committed request, and the step commits
\* the mutation of a re-issued operation
RetryStep == calls >= 1 /\ calls' = calls + 1

RetryCommitStep == calls >= 2 /\ CommitStep

\* re-issuing the operation leaves the replicated state as the first, committed,
\* submission left it
RetryIsIdempotent(kinds) ==
    ((RetryStep \/ RetryCommitStep) /\ last'.operation.kind \in kinds) =>
        replicated_vars' = replicated_vars

\* C21 as stated: re-issuing AbortTransfer, DropReplica or DropShardingKey after
\* the first submission has committed leaves the replicated state as it is, while
\* a re-issued MoveShard, ReplicateShard or CreateShardingKey can have a second
\* effect, for which it has to be submitted a second time.
C21_AsStated ==
    /\ [][RetryIsIdempotent({"AbortTransfer", "DropReplica", "DropShardingKey"})]_vars
    /\ [][(/\ RetryStep
           /\ last'.operation.kind \in {"MoveShard", "ReplicateShard",
                                        "CreateShardingKey"}) =>
              last'.submitted # <<>>]_vars

\* C21, amended: with no other request in between, re-issuing AbortTransfer,
\* DropReplica, DropShardingKey or CreateShardingKey after the first submission
\* has committed leaves the replicated state as the single application left it:
\* the re-issued AbortTransfer, DropShardingKey and CreateShardingKey are rejected
\* (the transfer is gone, the key is gone, the key exists) and submit nothing, the
\* re-issued DropReplica is submitted and removes nothing.  A re-issued MoveShard
\* or ReplicateShard passes validation and is submitted again; committed, it
\* starts a second transfer unless a transfer with its key is still active.
C21_RetryAfterCommit ==
    /\ [][RetryIsIdempotent({"AbortTransfer", "DropReplica", "DropShardingKey",
                             "CreateShardingKey"})]_vars
    /\ [][RetryStep =>
              /\ last'.operation.kind \in {"AbortTransfer", "DropShardingKey",
                                           "CreateShardingKey"} =>
                     /\ last'.result.kind =
                            (IF last'.operation.kind = "AbortTransfer"
                             THEN "NotFound" ELSE "BadRequest")
                     /\ last'.submitted = <<>>
                     /\ pending' = pending
              /\ last'.operation.kind \in {"MoveShard", "ReplicateShard",
                                           "DropReplica"} =>
                     /\ Accepted(last'.result)
                     /\ Len(last'.submitted) = 1
                     /\ last'.submitted = last.submitted
                     /\ pending' = last'.submitted]_vars
    /\ [][(/\ RetryCommitStep
           /\ last.operation.kind \in {"MoveShard", "ReplicateShard"}) =>
              IF \E t \in transfers : key_of(t) = OperationTransferKey(last.operation)
              THEN replicated_vars' = replicated_vars
              ELSE /\ transfers' = transfers \cup {Head(pending).operation.transfer}
                   /\ transfers' # transfers]_vars

\* the MoveShard of shard 0 from peer 2 to peer 1 was committed, its transfer
\* completed and peer 2 gave the shard up; the re-issued MoveShard was committed
\* too and a second transfer from peer 2 is active
C21_Witness ==
    /\ calls = 2
    /\ last.operation.kind = "MoveShard"
    /\ OperationTransferKey(last.operation) = [shard_id |-> 0, to |-> 1, from |-> 2]
    /\ pending = <<>>
    /\ <<0, 2>> \notin replicas
    /\ \E t \in transfers : key_of(t) = OperationTransferKey(last.operation)

====
